---- MODULE Spec2Model ----
(***************************************************************************)
(* Model of the X11 wire codec of XdotRS/x11-libraries:                    *)
(*   - the WindowConfigs mask set, its builder, and its Readable/Writable  *)
(*     implementations (src/src/common/set/window_configs.rs);             *)
(*   - the message writers generated by the define! macro                  *)
(*     (src/xrbk_macro/src/definition/expansion/writable.rs and            *)
(*     src/xrbk_macro/src/impls.rs).                                       *)
(*                                                                         *)
(* Representation of machine integers.  The checker's integers are 32-bit  *)
(* signed, so a 32-bit word is kept as its two 16-bit halves <<hi, lo>>.   *)
(* 16-bit values are kept as their bit pattern 0..65535; an i16 is the     *)
(* two's-complement pattern (65535 is -1, 32768 is i16::MIN).              *)
(* An Option<T> is <<>> (None) or <<v>> (Some(v)).                         *)
(***************************************************************************)
EXTENDS Integers, Sequences, FiniteSets, TLC

VARIABLES
    \* WindowConfigs: the builder, the built value, the wire and the value read
    pc, builder, configs, buf, decoded,
    \* define!: the definition, which generator expands it, the field bytes of
    \* the message value, the generated statements, the next statement to
    \* run and the items written so far
    mpc, def, gen, fill, writer, pos, out,
    \* the bytes handed to the generated read_from and what it returned
    rin, rd,
    \* the active case of the enum value (0 for a message)
    variant,
    \* counted lists: the message and its list, the encoded count field and
    \* elements, and what the reader returned
    lpc, list, lwire, lread,
    \* request opcodes: the request type being sent and the major opcode
    \* byte its writer put first
    opc, request, opcode_byte

cvars == <<pc, builder, configs, buf, decoded>>
mvars == <<mpc, def, gen, fill, writer, pos, out, rin, rd, variant>>
lvars == <<lpc, list, lwire, lread>>
ovars == <<opc, request, opcode_byte>>
vars == <<cvars, mvars, lvars, ovars>>

----------------------------------------------------------------------------
(* Bounds *)

\* Small magnitudes 0..MaxSmall (and, for i16, -1-MaxSmall..-1) handed to the
\* setters next to the extreme values of each type.
MaxSmall == 0
\* The largest number of elements in the content of a message definition.
MaxElements == 3
\* The largest number of cases of an enum definition.
MaxVariants == 3

----------------------------------------------------------------------------
(* Machine integers *)

U16Max == 65535
I16SignBit == 32768

None == <<>>
Some(v) == <<v>>
IsSome(o) == Len(o) = 1
IsNone(o) == Len(o) = 0

\* i16 arguments, as bit patterns: 0..MaxSmall, -1-MaxSmall..-1, i16::MAX, i16::MIN.
I16Vals == (0..MaxSmall) \cup ((U16Max - MaxSmall)..U16Max) \cup {I16SignBit - 1, I16SignBit}
\* u16 arguments: 0..MaxSmall and u16::MAX.
U16Vals == (0..MaxSmall) \cup {U16Max}
\* Window resource ids (u32 words).
WindowVals == {<<0, lo>> : lo \in 0..MaxSmall} \cup {<<U16Max, U16Max>>}
StackModeVals == {"Above", "Below", "TopIf", "BottomIf", "Opposite"}

\* A widening that forgets the sign.
I32FromI16_ZeroExtend(v) == <<0, v>>
\* i32::from(i16): sign extension.
I32FromI16(v) == <<IF v >= I16SignBit THEN U16Max ELSE 0, v>>
\* u32::from(u16): zero extension.
U32FromU16(v) == <<0, v>>

\* i16::try_from(i32): Ok(low half) when the word is the sign extension of
\* its low half, Err otherwise.
I16TryFromI32(w) == IF (w[1] = 0 /\ w[2] < I16SignBit) \/ (w[1] = U16Max /\ w[2] >= I16SignBit)
                    THEN Some(w[2]) ELSE None
\* u16::try_from(u32): Ok(low half) when the high half is zero.
U16TryFromU32(w) == IF w[1] = 0 THEN Some(w[2]) ELSE None

----------------------------------------------------------------------------
(* Buffer cursor: big-endian puts and gets over a sequence of bytes *)

PutU16(v) == <<v \div 256, v % 256>>
PutU32(w) == PutU16(w[1]) \o PutU16(w[2])
PutBytes(val, cnt) == [i \in 1..cnt |-> val]

Remaining(b) == Len(b)
Advance(b, n) == SubSeq(b, n + 1, Len(b))
GetU16(b) == b[1] * 256 + b[2]
GetU32(b) == <<b[1] * 256 + b[2], b[3] * 256 + b[4]>>

----------------------------------------------------------------------------
(* WindowConfigMask: bitflags over u16 *)

X == 1
Y == 2
WIDTH == 4
HEIGHT == 8
BORDER_WIDTH == 16
SIBLING == 32
STACK_MODE == 64

\* <WindowConfigMask as ConstantX11Size>::X11_SIZE: the size of the u16 bits.
MaskX11Size == 2

\* WindowConfigMask::contains (flag is a single bit).
contains(mask, flag) == (mask \div flag) % 2 = 1
\* `mask |= flag`.
BitOr(mask, flag) == IF contains(mask, flag) THEN mask ELSE mask + flag

----------------------------------------------------------------------------
(* WindowConfigsBuilder *)

\* WindowConfigsBuilder::new
new ==
    [x11_size |-> MaskX11Size, mask |-> 0,
     x |-> None, y |-> None, width |-> None, height |-> None,
     border_width |-> None, sibling |-> None, stack_mode |-> None]

\* A setter that counts 4 more bytes on every call.
Builder_x_AlwaysAdds(self, v) ==
    [self EXCEPT !.x11_size = @ + 4, !.x = Some(v), !.mask = BitOr(@, X)]
\* WindowConfigsBuilder::x
Builder_x(self, v) ==
    [self EXCEPT !.x11_size = IF IsNone(self.x) THEN @ + 4 ELSE @,
                 !.x = Some(v), !.mask = BitOr(@, X)]
\* WindowConfigsBuilder::y
Builder_y(self, v) ==
    [self EXCEPT !.x11_size = IF IsNone(self.y) THEN @ + 4 ELSE @,
                 !.y = Some(v), !.mask = BitOr(@, Y)]
\* WindowConfigsBuilder::width
Builder_width(self, v) ==
    [self EXCEPT !.x11_size = IF IsNone(self.width) THEN @ + 4 ELSE @,
                 !.width = Some(v), !.mask = BitOr(@, WIDTH)]
\* WindowConfigsBuilder::height
Builder_height(self, v) ==
    [self EXCEPT !.x11_size = IF IsNone(self.height) THEN @ + 4 ELSE @,
                 !.height = Some(v), !.mask = BitOr(@, HEIGHT)]
\* WindowConfigsBuilder::border_width
Builder_border_width(self, v) ==
    [self EXCEPT !.x11_size = IF IsNone(self.border_width) THEN @ + 4 ELSE @,
                 !.border_width = Some(v), !.mask = BitOr(@, BORDER_WIDTH)]
\* A sibling setter that forgets `self.mask |= WindowConfigMask::SIBLING`.
Builder_sibling_NoMaskBit(self, v) ==
    [self EXCEPT !.x11_size = IF IsNone(self.sibling) THEN @ + 4 ELSE @,
                 !.sibling = Some(v)]
\* WindowConfigsBuilder::sibling: no check of stack_mode.
Builder_sibling(self, v) ==
    [self EXCEPT !.x11_size = IF IsNone(self.sibling) THEN @ + 4 ELSE @,
                 !.sibling = Some(v), !.mask = BitOr(@, SIBLING)]
\* A stack-mode setter that also drops the sibling.
Builder_stack_mode_ClearsSibling(self, v) ==
    [self EXCEPT !.x11_size = IF IsNone(self.stack_mode) THEN @ + 4 ELSE @,
                 !.stack_mode = Some(v),
                 !.sibling = None,
                 !.mask = IF contains(BitOr(@, STACK_MODE), SIBLING)
                          THEN BitOr(@, STACK_MODE) - SIBLING
                          ELSE BitOr(@, STACK_MODE)]
\* WindowConfigsBuilder::stack_mode
Builder_stack_mode(self, v) ==
    [self EXCEPT !.x11_size = IF IsNone(self.stack_mode) THEN @ + 4 ELSE @,
                 !.stack_mode = Some(v), !.mask = BitOr(@, STACK_MODE)]

\* The newtype constructor __StackMode(StackMode).
WrapStackMode(m) == m

\* `.map(Into::into)` on an Option<i16>, on an Option<u16>, and
\* `.map(__StackMode)`.
MapI32(o) == IF IsSome(o) THEN Some(I32FromI16(o[1])) ELSE None
MapU32(o) == IF IsSome(o) THEN Some(U32FromU16(o[1])) ELSE None
MapStackMode(o) == IF IsSome(o) THEN Some(WrapStackMode(o[1])) ELSE None

\* WindowConfigsBuilder::build
build(self) ==
    [x11_size |-> self.x11_size,
     mask |-> self.mask,
     x |-> MapI32(self.x),
     y |-> MapI32(self.y),
     width |-> MapU32(self.width),
     height |-> MapU32(self.height),
     border_width |-> MapU32(self.border_width),
     sibling |-> self.sibling,
     stack_mode |-> MapStackMode(self.stack_mode)]

----------------------------------------------------------------------------
(* WindowConfigs accessors.  A result is [panic |-> BOOLEAN, value |-> Option]. *)

\* `.map(|v| v.try_into().expect("must fit into i16; ..."))`
ExpectI16(o) ==
    IF IsNone(o) THEN [panic |-> FALSE, value |-> None]
    ELSE IF IsSome(I16TryFromI32(o[1])) THEN [panic |-> FALSE, value |-> I16TryFromI32(o[1])]
    ELSE [panic |-> TRUE, value |-> None]
\* A conversion that keeps the low half instead of checking the range.
ExpectU16_Truncating(o) ==
    IF IsNone(o) THEN [panic |-> FALSE, value |-> None]
    ELSE [panic |-> FALSE, value |-> Some(o[1][2])]
\* `.map(|v| v.try_into().expect("must fit into u16; ..."))`
ExpectU16(o) ==
    IF IsNone(o) THEN [panic |-> FALSE, value |-> None]
    ELSE IF IsSome(U16TryFromU32(o[1])) THEN [panic |-> FALSE, value |-> U16TryFromU32(o[1])]
    ELSE [panic |-> TRUE, value |-> None]

Configs_x(self) == ExpectI16(self.x)
Configs_y(self) == ExpectI16(self.y)
Configs_width(self) == ExpectU16(self.width)
Configs_height(self) == ExpectU16(self.height)
Configs_border_width(self) == ExpectU16(self.border_width)
Configs_sibling(self) == self.sibling
Configs_stack_mode(self) == self.stack_mode

\* <WindowConfigs as X11Size>::x11_size
x11_size(self) == self.x11_size

----------------------------------------------------------------------------
(* Primitive codecs.  A read result is [status, value, rest]: status is    *)
(* "Ok", "BufferUnderrun", "UnrecognizedDiscriminant" (value is then the   *)
(* discriminant read) or "Panic"; rest is the unread part of the buffer.   *)

NoValue == <<>>

ReadOk(v, rest) == [status |-> "Ok", value |-> v, rest |-> rest]
ReadErr(kind, v, rest) == [status |-> kind, value |-> v, rest |-> rest]

\* <u16 as Readable>::read_from, used by the derived WindowConfigMask reader.
ReadU16(b) ==
    IF Remaining(b) < 2 THEN ReadErr("BufferUnderrun", NoValue, b)
    ELSE ReadOk(GetU16(b), Advance(b, 2))
\* <i32 / u32 / Window as Readable>::read_from: one 4-byte word.
ReadWord(b) ==
    IF Remaining(b) < 4 THEN ReadErr("BufferUnderrun", NoValue, b)
    ELSE ReadOk(GetU32(b), Advance(b, 4))
\* <i32 / u32 / Window as Writable>::write_to
WriteWord(w) == PutU32(w)

\* A writer whose discriminants start at 1.
StackMode_write_to_OneBased(m) ==
    CASE m = "Above" -> PutU32(<<0, 1>>)
      [] m = "Below" -> PutU32(<<0, 2>>)
      [] m = "TopIf" -> PutU32(<<0, 3>>)
      [] m = "BottomIf" -> PutU32(<<0, 4>>)
      [] m = "Opposite" -> PutU32(<<0, 5>>)
\* <__StackMode as Writable>::write_to
StackMode_write_to(m) ==
    CASE m = "Above" -> PutU32(<<0, 0>>)
      [] m = "Below" -> PutU32(<<0, 1>>)
      [] m = "TopIf" -> PutU32(<<0, 2>>)
      [] m = "BottomIf" -> PutU32(<<0, 3>>)
      [] m = "Opposite" -> PutU32(<<0, 4>>)

\* <__StackMode as Readable>::read_from: Buf::get_u32 panics when fewer than
\* 4 bytes remain.
StackMode_read_from(b) ==
    IF Remaining(b) < 4 THEN ReadErr("Panic", NoValue, b)
    ELSE LET discrim == GetU32(b)
             rest == Advance(b, 4)
         IN  CASE discrim = <<0, 0>> -> ReadOk("Above", rest)
               [] discrim = <<0, 1>> -> ReadOk("Below", rest)
               [] discrim = <<0, 2>> -> ReadOk("TopIf", rest)
               [] discrim = <<0, 3>> -> ReadOk("BottomIf", rest)
               [] discrim = <<0, 4>> -> ReadOk("Opposite", rest)
               [] OTHER -> ReadErr("UnrecognizedDiscriminant", discrim, rest)

----------------------------------------------------------------------------
(* Writable and Readable for WindowConfigs *)

\* `if let Some(v) = field { v.write_to(buf)?; }`: the bytes appended for
\* a 4-byte word field and for the stack mode.
WordSlot(o) == IF IsSome(o) THEN WriteWord(o[1]) ELSE <<>>
StackModeSlot(o) == IF IsSome(o) THEN StackMode_write_to(o[1]) ELSE <<>>

\* A writer that emits y before x.
write_to_YBeforeX(self) ==
    LET b0 == PutU16(self.mask)
        b1 == b0 \o PutBytes(0, 2)
        b2 == b1 \o WordSlot(self.y)
        b3 == b2 \o WordSlot(self.x)
        b4 == b3 \o WordSlot(self.width)
        b5 == b4 \o WordSlot(self.height)
        b6 == b5 \o WordSlot(self.border_width)
        b7 == b6 \o WordSlot(self.sibling)
        b8 == b7 \o StackModeSlot(self.stack_mode)
    IN  b8
\* <WindowConfigs as Writable>::write_to: the bytes appended to the buffer.
write_to(self) ==
    LET b0 == PutU16(self.mask)
        b1 == b0 \o PutBytes(0, 2)
        b2 == b1 \o WordSlot(self.x)
        b3 == b2 \o WordSlot(self.y)
        b4 == b3 \o WordSlot(self.width)
        b5 == b4 \o WordSlot(self.height)
        b6 == b5 \o WordSlot(self.border_width)
        b7 == b6 \o WordSlot(self.sibling)
        b8 == b7 \o StackModeSlot(self.stack_mode)
    IN  b8

\* The WriteResult of <__StackMode as Writable>::write_to: every arm of the
\* match puts a word and the function ends in Ok(()).
StackMode_write_result(m) == "Ok"
\* The WriteResult of <WindowConfigs as Writable>::write_to: the first Err
\* among the writes of the present fields, propagated by `?`, else Ok(()).
\* The writes of the mask and of a 4-byte word cannot fail.
write_to_result(self) ==
    IF IsSome(self.stack_mode) /\ StackMode_write_result(self.stack_mode[1]) # "Ok"
    THEN StackMode_write_result(self.stack_mode[1])
    ELSE "Ok"

\* super::read_set_value, followed by `?`.  st is the reader's state
\* [status, value, rest, x11_size] and r the result of T::read_from on
\* st.rest, used when the condition holds.  Once status is not "Ok" the
\* function has returned and the remaining steps leave st alone.
read_set_value(st, condition, r) ==
    IF st.status # "Ok" THEN st
    ELSE IF ~condition THEN [st EXCEPT !.value = None]
    ELSE IF r.status # "Ok"
         THEN [st EXCEPT !.status = r.status, !.value = r.value, !.rest = r.rest]
    ELSE [st EXCEPT !.value = Some(r.value), !.rest = r.rest, !.x11_size = @ + 4]

\* A skip that leaves the second reserved byte in the buffer.
SkipReserved_OneByte(b) == Advance(b, 1)
\* `buf.advance(2)`: the 2 unused bytes after the mask are dropped unread.
SkipReserved(b) == Advance(b, 2)

\* A size that starts from the mask alone.
InitialReadSize_MaskOnly == MaskX11Size
\* `let mut x11_size = mask.x11_size() + 2;`
InitialReadSize == MaskX11Size + 2

\* <WindowConfigs as Readable>::read_from.  The result is
\* [status, value, rest]; value is the WindowConfigs when status is "Ok".
read_from(b) ==
    LET m == ReadU16(b)
    IN  IF m.status # "Ok" THEN m
        ELSE IF Remaining(m.rest) < 2 THEN ReadErr("Panic", NoValue, m.rest)
        ELSE
        LET mask == m.value
            s0 == [status |-> "Ok", value |-> None, rest |-> SkipReserved(m.rest),
                   x11_size |-> InitialReadSize]
            sx == read_set_value(s0, contains(mask, X), ReadWord(s0.rest))
            sy == read_set_value(sx, contains(mask, Y), ReadWord(sx.rest))
            sw == read_set_value(sy, contains(mask, WIDTH), ReadWord(sy.rest))
            sh == read_set_value(sw, contains(mask, HEIGHT), ReadWord(sw.rest))
            sb == read_set_value(sh, contains(mask, BORDER_WIDTH), ReadWord(sh.rest))
            ss == read_set_value(sb, contains(mask, SIBLING), ReadWord(sb.rest))
            sm == read_set_value(ss, contains(mask, STACK_MODE),
                                 StackMode_read_from(ss.rest))
        IN  IF sm.status # "Ok" THEN ReadErr(sm.status, sm.value, sm.rest)
            ELSE ReadOk([x11_size |-> sm.x11_size,
                         mask |-> mask,
                         x |-> sx.value, y |-> sy.value,
                         width |-> sw.value, height |-> sh.value,
                         border_width |-> sb.value,
                         sibling |-> ss.value,
                         stack_mode |-> sm.value], sm.rest)

----------------------------------------------------------------------------
(* The state machine: a builder is configured by setter calls, built,      *)
(* the WindowConfigs is written to an empty buffer and read back from it.  *)

\* No message definition is being expanded.
MsgIdle ==
    /\ mpc = "idle"
    /\ def = NoValue
    /\ gen = "none"
    /\ fill = 0
    /\ writer = <<>>
    /\ pos = 0
    /\ out = <<>>
    /\ rin = <<>>
    /\ rd = <<>>
    /\ variant = 0

\* No counted list is being encoded.
ListIdle ==
    /\ lpc = "idle"
    /\ list = <<>>
    /\ lwire = <<>>
    /\ lread = <<>>

\* No request type has been chosen.
OpcodeIdle ==
    /\ opc = "idle"
    /\ request = ""
    /\ opcode_byte = 0

\* Buffers that did not come from write_to: a mask over the seven flags,
\* 2 reserved bytes of any content, one 4-byte slot per flag set, each slot
\* holding the same word, and the whole cut off after any number of bytes.
AllFlags == {X, Y, WIDTH, HEIGHT, BORDER_WIDTH, SIBLING, STACK_MODE}
FlagCount(mask) == Cardinality({flag \in AllFlags : contains(mask, flag)})
WireWords == {<<0, 0>>, <<0, 4>>, <<0, 5>>, <<1, 0>>, <<U16Max, U16Max>>}
ReservedBytes == {0, 255}
FullWire(mask, reserved, word) ==
    PutU16(mask) \o PutBytes(reserved, 2)
        \o [i \in 1..(4 * FlagCount(mask)) |-> PutU32(word)[((i - 1) % 4) + 1]]
WireBuffers ==
    UNION {{SubSeq(FullWire(mask, reserved, word), 1, n) :
                n \in 0..Len(FullWire(mask, reserved, word))} :
            mask \in 0..(2 * STACK_MODE - 1), reserved \in ReservedBytes,
            word \in WireWords}

\* A fresh builder and an empty buffer.
InitBuilder ==
    /\ pc = "building"
    /\ builder = new
    /\ configs = NoValue
    /\ buf = <<>>
    /\ decoded = NoValue
    /\ MsgIdle
    /\ ListIdle
    /\ OpcodeIdle

\* A buffer received from elsewhere, about to be read.
InitWire ==
    /\ pc = "wire"
    /\ builder = new
    /\ configs = NoValue
    /\ buf \in WireBuffers
    /\ decoded = NoValue
    /\ MsgIdle
    /\ ListIdle
    /\ OpcodeIdle

Init == InitBuilder \/ InitWire

Setter(b) ==
    /\ pc = "building"
    /\ builder' = b
    /\ UNCHANGED <<pc, configs, buf, decoded, mvars, lvars, ovars>>

CallX == \E v \in I16Vals : Setter(Builder_x(builder, v))
CallY == \E v \in I16Vals : Setter(Builder_y(builder, v))
CallWidth == \E v \in U16Vals : Setter(Builder_width(builder, v))
CallHeight == \E v \in U16Vals : Setter(Builder_height(builder, v))
CallBorderWidth == \E v \in U16Vals : Setter(Builder_border_width(builder, v))
CallSibling == \E v \in WindowVals : Setter(Builder_sibling(builder, v))
CallStackMode == \E v \in StackModeVals : Setter(Builder_stack_mode(builder, v))

CallBuild ==
    /\ pc = "building"
    /\ configs' = build(builder)
    /\ pc' = "built"
    /\ UNCHANGED <<builder, buf, decoded, mvars, lvars, ovars>>

CallWriteTo ==
    /\ pc = "built"
    /\ IF write_to_result(configs) = "Ok"
       THEN buf' = buf \o write_to(configs) /\ pc' = "written"
       ELSE buf' = buf /\ pc' = "write_failed"
    /\ UNCHANGED <<builder, configs, decoded, mvars, lvars, ovars>>

\* read_from on the bytes just written (pc becomes "read") or on a received
\* buffer (pc becomes "read_wire").
CallReadFrom ==
    /\ pc \in {"written", "wire"}
    /\ decoded' = read_from(buf)
    /\ pc' = IF pc = "written" THEN "read" ELSE "read_wire"
    /\ UNCHANGED <<builder, configs, buf, mvars, lvars, ovars>>

Next ==
    \/ CallX \/ CallY \/ CallWidth \/ CallHeight \/ CallBorderWidth
    \/ CallSibling \/ CallStackMode
    \/ CallBuild \/ CallWriteTo \/ CallReadFrom

Spec == Init /\ [][Next]_vars

----------------------------------------------------------------------------
(* Properties of the WindowConfigs codec *)

\* The canonical order of the optional fields, with the mask bit of each.
CanonicalOrder == <<"x", "y", "width", "height", "border_width", "sibling", "stack_mode">>
FlagOf(f) ==
    CASE f = "x" -> X [] f = "y" -> Y [] f = "width" -> WIDTH [] f = "height" -> HEIGHT
      [] f = "border_width" -> BORDER_WIDTH [] f = "sibling" -> SIBLING
      [] f = "stack_mode" -> STACK_MODE
FieldNames == {CanonicalOrder[i] : i \in 1..Len(CanonicalOrder)}
PresentCount(c) == Cardinality({f \in FieldNames : IsSome(c[f])})

\* C1: read_from applied to the bytes written by v.write_to returns a value
\* equal to v under the derived equality (x11_size, mask and all seven fields).
C1_RoundTripEqual ==
    pc = "read" => (decoded.status = "Ok" /\ decoded.value = configs)

\* C2: for a value made by build, x11_size() is the number of bytes write_to
\* appends to the buffer.
C2_SizeIsBytesWritten ==
    pc \in {"written", "read"} => x11_size(configs) = Len(buf)

\* C3: encoding then decoding preserves exactly the subset of present fields
\* and exactly their values; a field that was absent decodes as None.
C3_SubsetAndValuesPreserved ==
    pc = "read" =>
        /\ decoded.status = "Ok"
        /\ \A f \in FieldNames :
              /\ IsSome(decoded.value[f]) <=> IsSome(configs[f])
              /\ IsSome(configs[f]) => decoded.value[f][1] = configs[f][1]
              /\ IsNone(configs[f]) => decoded.value[f] = None
C3_Witness ==
    /\ pc = "read"
    /\ decoded.status = "Ok"
    /\ decoded.value.x = Some(<<U16Max, U16Max>>)
    /\ IsNone(decoded.value.y)
    /\ IsNone(decoded.value.sibling)
    /\ decoded.value.stack_mode = Some("Opposite")
    /\ decoded.value.width = Some(<<0, 0>>)

\* C4: in every builder state, every built value and every successfully read
\* value, each of the seven mask bits is set iff the field is Some.
MaskMatchesFields(c) ==
    \A f \in FieldNames : contains(c.mask, FlagOf(f)) <=> IsSome(c[f])
C4_MaskBitIffSome ==
    /\ MaskMatchesFields(builder)
    /\ pc \in {"built", "written", "read"} => MaskMatchesFields(configs)
    /\ (pc \in {"read", "read_wire"} /\ decoded.status = "Ok") =>
          MaskMatchesFields(decoded.value)
C4_Witness ==
    /\ pc = "read_wire"
    /\ decoded.status = "Ok"
    /\ contains(decoded.value.mask, SIBLING)
    /\ IsSome(decoded.value.sibling)
    /\ ~contains(decoded.value.mask, HEIGHT)
    /\ IsNone(decoded.value.height)
    /\ decoded.value.x = Some(<<1, 0>>)

\* C5: every 16-bit value given to the builder comes back unchanged from the
\* accessor of the value read back from the wire, and no accessor panics.
AccessorReturns(r, original) == r.panic = FALSE /\ r.value = original
C5_SixteenBitValuesSurvive ==
    pc = "read" =>
        /\ decoded.status = "Ok"
        /\ AccessorReturns(Configs_x(decoded.value), builder.x)
        /\ AccessorReturns(Configs_y(decoded.value), builder.y)
        /\ AccessorReturns(Configs_width(decoded.value), builder.width)
        /\ AccessorReturns(Configs_height(decoded.value), builder.height)
        /\ AccessorReturns(Configs_border_width(decoded.value), builder.border_width)
C5_Witness ==
    /\ pc = "read"
    /\ builder.x = Some(U16Max)
    /\ builder.y = Some(I16SignBit)
    /\ builder.width = Some(U16Max)
    /\ Configs_x(decoded.value).value = Some(U16Max)
    /\ SubSeq(buf, 5, 8) = <<255, 255, 255, 255>>

\* C6: write_to emits the 16-bit mask, 2 reserved bytes, then one 4-byte slot
\* per present field in the canonical order and nothing for an absent field;
\* read_from consumes the slots in the same order.
StackModeCode(m) ==
    CASE m = "Above" -> 0 [] m = "Below" -> 1 [] m = "TopIf" -> 2
      [] m = "BottomIf" -> 3 [] m = "Opposite" -> 4
SlotWord(c, f) == IF f = "stack_mode" THEN <<0, StackModeCode(c[f][1])>> ELSE c[f][1]
SlotBytes(w) == <<w[1] \div 256, w[1] % 256, w[2] \div 256, w[2] % 256>>
\* Offset of field number i's slot: after the 4 header bytes and the slots of
\* the present fields that precede it in the canonical order.
SlotOffset(c, i) == 4 + 4 * Cardinality({j \in 1..(i - 1) : IsSome(c[CanonicalOrder[j]])})
C6_WireLayout ==
    /\ pc \in {"written", "read"} =>
          /\ Len(buf) = 4 + 4 * PresentCount(configs)
          /\ buf[1] * 256 + buf[2] = configs.mask
          /\ buf[3] = 0 /\ buf[4] = 0
          /\ \A i \in 1..Len(CanonicalOrder) :
                LET f == CanonicalOrder[i]
                    at == SlotOffset(configs, i)
                IN  IsSome(configs[f]) =>
                       SubSeq(buf, at + 1, at + 4) = SlotBytes(SlotWord(configs, f))
    /\ pc = "read" =>
          /\ decoded.status = "Ok"
          /\ decoded.rest = <<>>
          /\ \A f \in FieldNames : decoded.value[f] = configs[f]
C6_Witness ==
    /\ pc = "read"
    /\ IsSome(configs.x) /\ IsSome(configs.y) /\ configs.x # configs.y
    /\ IsNone(configs.width)
    /\ IsSome(configs.border_width)
    /\ IsSome(configs.stack_mode)
    /\ Len(buf) = 20

\* C7: the value returned by build() never has sibling present while
\* stack_mode is absent.
C7_SiblingImpliesStackMode ==
    pc \in {"built", "written", "read"} =>
        ~(IsSome(configs.sibling) /\ IsNone(configs.stack_mode))

----------------------------------------------------------------------------
(* define!: message definitions.  A definition is                          *)
(*   [kind, major_opcode, minor_opcode, sequence_token, content]           *)
(* and an element of its content is [kind, size, metabyte, sequence]:      *)
(* a field or a `let` of a type of `size` bytes, or `size` unused bytes.   *)

Element(kind, size, metabyte, sequence) ==
    [kind |-> kind, size |-> size, metabyte |-> metabyte, sequence |-> sequence]

\* Plain fields of 1, 2 and 4 bytes; a #[metabyte] field of one byte
\* (`#[metabyte] pub mode: EditMode`); a #[metabyte] count declared as u16
\* (`#[metabyte] let map_len: u16`); a 24-byte unused run (`[_; 24]`).
BodyElements ==
    {Element("field", sz, FALSE, FALSE) : sz \in {1, 2, 4}}
        \cup {Element("field", 1, TRUE, FALSE), Element("let", 2, TRUE, FALSE),
              Element("unused", 24, FALSE, FALSE)}
\* The #[sequence] field of a reply or event.
SequenceElement == Element("field", 2, FALSE, TRUE)

\* Element::is_metabyte / Element::is_sequence
is_metabyte(element) == element.metabyte
is_sequence(element) == element.sequence

Indices(content) == [i \in 1..Len(content) |-> i]
\* The indices of the elements designated #[metabyte] / #[sequence].
MetabyteIndices(content) == {i \in 1..Len(content) : is_metabyte(content[i])}
SequenceIndices(content) == {i \in 1..Len(content) : is_sequence(content[i])}

\* Contents of up to MaxElements elements with at most one metabyte element
\* and at most one sequence element.
Contents(elements) ==
    {c \in UNION {[1..n -> elements] : n \in 0..MaxElements} :
        /\ Cardinality(MetabyteIndices(c)) <= 1
        /\ Cardinality(SequenceIndices(c)) <= 1}

\* Content::metabyte_element / Content::sequence_element: the index of the
\* designated element, 0 when there is none.
metabyte_element(content) ==
    IF MetabyteIndices(content) = {} THEN 0
    ELSE CHOOSE i \in MetabyteIndices(content) : TRUE
sequence_element(content) ==
    IF SequenceIndices(content) = {} THEN 0
    ELSE CHOOSE i \in SequenceIndices(content) : TRUE

MajorOpcodes == {1, 116}
MinorOpcodes == {None, Some(3)}

\* `struct Name: Request(major[, minor]) { content }`
RequestDefs ==
    {[kind |-> "Request", major_opcode |-> major, minor_opcode |-> minor,
      sequence_token |-> FALSE, content |-> c] :
        major \in MajorOpcodes, minor \in MinorOpcodes, c \in Contents(BodyElements)}
\* `struct Name: Reply for Req { content }`, as read by
\* definition/expansion/writable.rs: the sequence is an element.
ReplyDefsWithElement ==
    {[kind |-> "Reply", major_opcode |-> 0, minor_opcode |-> None,
      sequence_token |-> FALSE, content |-> c] :
        c \in Contents(BodyElements \cup {SequenceElement})}
\* `struct Name: Reply[(?sequence)] for Req { content }`, as read by
\* definition.rs: sequence_token is the opt-out.
ReplyDefsWithToken ==
    {[kind |-> "Reply", major_opcode |-> 0, minor_opcode |-> None,
      sequence_token |-> tok, content |-> c] :
        tok \in BOOLEAN, c \in Contents(BodyElements)}

EventCodes == {2, 11}
\* `struct Name: Event(code) { content }`, as read by
\* definition/expansion/writable.rs: the sequence is an element the
\* definition may or may not have.
EventDefsWithElement ==
    {[kind |-> "Event", event_code |-> code, implicit_sequence |-> FALSE, content |-> c] :
        code \in EventCodes, c \in Contents(BodyElements \cup {SequenceElement})}
\* `struct Name: Event(code) { content }`, as read by definition.rs: every
\* event struct is given a `_sequence_: u16` field.
EventDefsImplicit ==
    {[kind |-> "Event", event_code |-> code, implicit_sequence |-> TRUE, content |-> c] :
        code \in EventCodes, c \in Contents(BodyElements)}

\* The contents of an enum case: no items, one byte, or a 4-byte field
\* followed by 2 unused bytes.
VariantContents ==
    {<<>>, <<Element("field", 1, FALSE, FALSE)>>,
     <<Element("field", 4, FALSE, FALSE), Element("unused", 2, FALSE, FALSE)>>}
\* A case is declared with or without `= <expr>`.
DiscriminantExprs == {None, Some(5)}
Variant(discriminant, content) == [discriminant |-> discriminant, content |-> content]

\* The discriminant rustc gives case k of the enum the macro emits (the
\* `= <expr>` is emitted with the case): the expression, or one more than
\* the case before, starting at 0.
RustDiscriminant(variants, k) ==
    LET explicit == {j \in 1..k : IsSome(variants[j].discriminant)}
        last == CHOOSE j \in explicit : \A i \in explicit : i <= j
    IN  IF explicit = {} THEN k - 1 ELSE variants[last].discriminant[1] + (k - last)

\* `enum Name { A, B = 5, C(u8), ... }` with up to MaxVariants cases.  rustc
\* rejects an enum in which two cases have the same discriminant.
EnumDefs ==
    {[kind |-> "Enum", variants |-> vs] :
        vs \in {v \in UNION {[1..n -> {Variant(e, c) : e \in DiscriminantExprs,
                                                     c \in VariantContents}] :
                                n \in 1..MaxVariants} :
                    \A i, j \in 1..Len(v) :
                        i # j => RustDiscriminant(v, i) # RustDiscriminant(v, j)}}

----------------------------------------------------------------------------
(* The generated writers.  A statement is [op, src, elem]: op is the       *)
(* buffer call ("put_u8", "put_u16", "put_u32") or "write" for an          *)
(* element's own write; src says what is written; elem is the element's    *)
(* index in the content (0 when src is no element).                        *)

Stmt(op, src, elem) == [op |-> op, src |-> src, elem |-> elem]
Expanded(stmts) == [panic |-> FALSE, stmts |-> stmts]
ExpansionPanic == [panic |-> TRUE, stmts |-> <<>>]

\* Element::write_tokens for the element at index i.
write_tokens(i) == <<Stmt("write", "element", i)>>

\* `for element in &self.content { if !element.is_metabyte() &&
\* !element.is_sequence() { element.write_tokens(..) } }`
BodyWrites(content) ==
    LET keep(i) == ~is_metabyte(content[i]) /\ ~is_sequence(content[i])
        kept == SelectSeq(Indices(content), keep)
    IN  [k \in 1..Len(kept) |-> Stmt("write", "element", kept[k])]

\* `for (id, item) in items.pairs().filter(|(_, item)| !item.is_metabyte())`
InnerWrites(content) ==
    LET keep(i) == ~is_metabyte(content[i])
        kept == SelectSeq(Indices(content), keep)
    IN  [k \in 1..Len(kept) |-> Stmt("write", "element", kept[k])]

\* Items::metabyte_serialize_tokens: the metabyte item, or a blank byte.
metabyte_serialize_tokens(content) ==
    IF metabyte_element(content) # 0 THEN write_tokens(metabyte_element(content))
    ELSE <<Stmt("put_u8", "zero", 0)>>

\* A request writer that puts the length before the metabyte.
Request_impl_writable_LengthFirst(d) ==
    LET metabyte ==
            IF IsSome(d.minor_opcode) THEN <<Stmt("put_u8", "minor_opcode", 0)>>
            ELSE IF metabyte_element(d.content) # 0
                 THEN write_tokens(metabyte_element(d.content))
            ELSE <<Stmt("put_u8", "zero", 0)>>
    IN  Expanded(<<Stmt("put_u8", "major_opcode", 0)>>
                   \o <<Stmt("put_u16", "length", 0)>>
                   \o metabyte
                   \o BodyWrites(d.content))

\* Request::impl_writable (definition/expansion/writable.rs)
Request_impl_writable(d) ==
    LET metabyte ==
            IF IsSome(d.minor_opcode) THEN <<Stmt("put_u8", "minor_opcode", 0)>>
            ELSE IF metabyte_element(d.content) # 0
                 THEN write_tokens(metabyte_element(d.content))
            ELSE <<Stmt("put_u8", "zero", 0)>>
    IN  Expanded(<<Stmt("put_u8", "major_opcode", 0)>>
                   \o metabyte
                   \o <<Stmt("put_u16", "length", 0)>>
                   \o BodyWrites(d.content))

\* <Request as SerializeMessageTokens>::serialize_tokens (impls.rs)
Request_serialize_tokens(d) ==
    LET metabyte ==
            IF IsSome(d.minor_opcode) THEN <<Stmt("put_u8", "minor_opcode", 0)>>
            ELSE metabyte_serialize_tokens(d.content)
    IN  Expanded(<<Stmt("put_u8", "major_opcode", 0)>>
                   \o metabyte
                   \o <<Stmt("put_u16", "length", 0)>>
                   \o InnerWrites(d.content))

\* Reply::impl_writable (definition/expansion/writable.rs): the expansion
\* panics when the content has no sequence field.
Reply_impl_writable(d) ==
    LET metabyte ==
            IF metabyte_element(d.content) # 0
            THEN write_tokens(metabyte_element(d.content))
            ELSE <<Stmt("put_u8", "zero", 0)>>
    IN  IF sequence_element(d.content) = 0 THEN ExpansionPanic
        ELSE Expanded(<<Stmt("put_u8", "one", 0)>>
                        \o metabyte
                        \o <<Stmt("put_u16", "sequence", sequence_element(d.content))>>
                        \o <<Stmt("put_u32", "length", 0)>>
                        \o BodyWrites(d.content))

\* <Reply as SerializeMessageTokens>::serialize_tokens (impls.rs): the
\* sequence is written unless the definition opts out with `?sequence`.
Reply_serialize_tokens(d) ==
    LET sequence ==
            IF ~d.sequence_token THEN <<Stmt("put_u16", "sequence", 0)>> ELSE <<>>
    IN  Expanded(<<Stmt("put_u8", "one", 0)>>
                   \o metabyte_serialize_tokens(d.content)
                   \o sequence
                   \o <<Stmt("put_u32", "length", 0)>>
                   \o InnerWrites(d.content))

\* An event writer that leaves a blank metabyte after the code of an event
\* without a sequence field.
Event_impl_writable_AlwaysMetabyte(d) ==
    LET metabyte ==
            IF metabyte_element(d.content) # 0
            THEN write_tokens(metabyte_element(d.content))
            ELSE <<Stmt("put_u8", "zero", 0)>>
        sequence ==
            IF sequence_element(d.content) # 0
            THEN <<Stmt("put_u16", "sequence", sequence_element(d.content))>>
            ELSE <<>>
    IN  Expanded(<<Stmt("put_u8", "event_code", 0)>>
                   \o metabyte
                   \o sequence
                   \o BodyWrites(d.content))

\* Event::impl_writable (definition/expansion/writable.rs): no metabyte and
\* no sequence are written for an event without a sequence field.
Event_impl_writable(d) ==
    LET metabyte ==
            IF sequence_element(d.content) = 0 THEN <<>>
            ELSE IF metabyte_element(d.content) # 0
                 THEN write_tokens(metabyte_element(d.content))
            ELSE <<Stmt("put_u8", "zero", 0)>>
        sequence ==
            IF sequence_element(d.content) # 0
            THEN <<Stmt("put_u16", "sequence", sequence_element(d.content))>>
            ELSE <<>>
    IN  Expanded(<<Stmt("put_u8", "event_code", 0)>>
                   \o metabyte
                   \o sequence
                   \o BodyWrites(d.content))

\* <Event as SerializeMessageTokens>::serialize_tokens (impls.rs): the
\* metabyte and `*_sequence_` are always written.
Event_serialize_tokens(d) ==
    Expanded(<<Stmt("put_u8", "event_code", 0)>>
               \o metabyte_serialize_tokens(d.content)
               \o <<Stmt("put_u16", "sequence", 0)>>
               \o InnerWrites(d.content))

\* `(<expr>) as u8` on a usize.
AsU8(n) == n % 256

\* The discriminant tokens of case k in Enum::impl_writable: `0` at the
\* start, replaced by `discrim_<case>` at a case with `= <expr>`, and
\* `+ 1` appended after every case.  A variant of it that ignores `= <expr>`
\* precedes it.
Enum_impl_writable_discrim_Sequential(variants, k) == k - 1
Enum_impl_writable_discrim(variants, k) ==
    LET explicit == {j \in 1..k : IsSome(variants[j].discriminant)}
        last == CHOOSE j \in explicit : \A i \in explicit : i <= j
    IN  IF explicit = {} THEN k - 1 ELSE variants[last].discriminant[1] + (k - last)

\* The discriminant tokens of case k in Enum::serialize_tokens: the same
\* accumulation over usize, written as `(<tokens>) as u8`.
Enum_serialize_discrim(variants, k) ==
    LET explicit == {j \in 1..k : IsSome(variants[j].discriminant)}
        last == CHOOSE j \in explicit : \A i \in explicit : i <= j
    IN  AsU8(IF explicit = {} THEN k - 1
             ELSE variants[last].discriminant[1] + (k - last))

\* The statements of the match arm of case k: the discriminant byte (the
\* statement holds its value in `elem`), then every element of the case.
WriteArm(discrim, content) ==
    <<Stmt("put_u8", "discriminant", discrim)>>
        \o [i \in 1..Len(content) |-> Stmt("write", "element", i)]

\* Enum::impl_writable (definition/expansion/writable.rs): one arm per case.
Enum_impl_writable(d) ==
    Expanded([k \in 1..Len(d.variants) |->
                 WriteArm(Enum_impl_writable_discrim(d.variants, k), d.variants[k].content)])
\* Enum::serialize_tokens (impls.rs): one arm per case.
Enum_serialize_tokens(d) ==
    Expanded([k \in 1..Len(d.variants) |->
                 WriteArm(Enum_serialize_discrim(d.variants, k), d.variants[k].content)])

\* The expansion of a definition by the chosen generator.
Expand(d, g) ==
    CASE d.kind = "Request" /\ g = "impl_writable" -> Request_impl_writable(d)
      [] d.kind = "Request" /\ g = "serialize_tokens" -> Request_serialize_tokens(d)
      [] d.kind = "Reply" /\ g = "impl_writable" -> Reply_impl_writable(d)
      [] d.kind = "Reply" /\ g = "serialize_tokens" -> Reply_serialize_tokens(d)
      [] d.kind = "Event" /\ g = "impl_writable" -> Event_impl_writable(d)
      [] d.kind = "Event" /\ g = "serialize_tokens" -> Event_serialize_tokens(d)
      [] d.kind = "Enum" /\ g = "impl_writable" -> Enum_impl_writable(d)
      [] d.kind = "Enum" /\ g = "serialize_tokens" -> Enum_serialize_tokens(d)

----------------------------------------------------------------------------
(* Running a generated writer on a message value *)

\* <Name as xrb::Request>::length, as generated by Request::impl_request_tokens:
\* `// TODO: calculate length ...` then `0`.
Request_length(d) == 0
\* <Name as xrb::Reply>::length, as generated by Reply::impl_reply_tokens:
\* `// TODO: implement length` then `0`.
Reply_length(d) == 0

\* A request definition without `Request(major, minor)`.
Request_minor_opcode_None(d) == None
\* <Name as xrb::Request>::minor_opcode, as generated by
\* Request::impl_request_tokens: `Some((<minor>) as u8)` or `None`.
Request_minor_opcode(d) ==
    IF IsSome(d.minor_opcode) THEN Some(AsU8(d.minor_opcode[1])) ELSE None

\* `<Self as ::xrb::Request>::minor_opcode().unwrap()` panics on None; no
\* other generated write statement can panic or return Err on a value.
WritePanics(stmt, d) ==
    stmt.src = "minor_opcode" /\ IsNone(Request_minor_opcode(d))

\* The bytes an element writes: zeroes for an unused run, else the `size`
\* bytes of the field's value.
ElementBytes(element, byte) ==
    [k \in 1..element.size |-> IF element.kind = "unused" THEN 0 ELSE byte]

\* The item one statement appends to the buffer: what it is and its bytes.
Exec(stmt, d, byte) ==
    LET bytes ==
            CASE stmt.src = "major_opcode" -> <<d.major_opcode>>
              [] stmt.src = "minor_opcode" -> <<Request_minor_opcode(d)[1]>>
              [] stmt.src = "event_code" -> <<d.event_code>>
              [] stmt.src = "discriminant" -> <<stmt.elem>>
              [] stmt.src = "zero" -> <<0>>
              [] stmt.src = "one" -> <<1>>
              [] stmt.src = "sequence" -> PutU16(byte * 256 + byte)
              [] stmt.src = "length" /\ stmt.op = "put_u16" -> PutU16(Request_length(d))
              [] stmt.src = "length" /\ stmt.op = "put_u32" -> PutU32(<<0, Reply_length(d)>>)
              [] stmt.src = "element" -> ElementBytes(d.content[stmt.elem], byte)
    IN  [src |-> stmt.src, elem |-> stmt.elem, bytes |-> bytes]

ConfigsIdle ==
    /\ pc = "idle"
    /\ builder = new
    /\ configs = NoValue
    /\ buf = <<>>
    /\ decoded = NoValue

FillBytes == {1, 255}

\* The case of an enum value whose fields are being written: for an enum
\* the match arm taken and the items of that case.
ActiveStmts(expanded, d, v) == IF d.kind = "Enum" THEN expanded.stmts[v] ELSE expanded.stmts
ActiveDef(d, v) ==
    IF d.kind = "Enum" THEN [kind |-> "Variant", content |-> d.variants[v].content] ELSE d

InitMsg ==
    /\ ConfigsIdle
    /\ ListIdle
    /\ OpcodeIdle
    /\ mpc = "defined"
    /\ \/ gen = "impl_writable"
          /\ def \in RequestDefs \cup ReplyDefsWithElement \cup EventDefsWithElement
                        \cup EnumDefs
       \/ gen = "serialize_tokens"
          /\ def \in RequestDefs \cup ReplyDefsWithToken \cup EventDefsImplicit
                        \cup EnumDefs
    /\ variant \in IF def.kind = "Enum" THEN 1..Len(def.variants) ELSE {0}
    /\ fill \in FillBytes
    /\ writer = <<>>
    /\ pos = 0
    /\ out = <<>>
    /\ rin = <<>>
    /\ rd = <<>>

\* The macro expands the definition into its write_to.
MacroExpand ==
    /\ mpc = "defined"
    /\ ~Expand(def, gen).panic
    /\ writer' = ActiveStmts(Expand(def, gen), def, variant)
    /\ pos' = 1
    /\ mpc' = "writing"
    /\ UNCHANGED <<def, gen, fill, out, rin, rd, variant, cvars, lvars, ovars>>

\* The macro panics and no writer is generated.
MacroPanic ==
    /\ mpc = "defined"
    /\ Expand(def, gen).panic
    /\ mpc' = "panicked"
    /\ UNCHANGED <<def, gen, fill, writer, pos, out, rin, rd, variant, cvars, lvars, ovars>>

\* The generated write_to runs its next statement, or panics in it.
WriteStatement ==
    /\ mpc = "writing"
    /\ pos <= Len(writer)
    /\ IF WritePanics(writer[pos], ActiveDef(def, variant))
       THEN mpc' = "write_panicked" /\ UNCHANGED <<out, pos>>
       ELSE /\ out' = Append(out, Exec(writer[pos], ActiveDef(def, variant), fill))
            /\ pos' = pos + 1
            /\ UNCHANGED mpc
    /\ UNCHANGED <<def, gen, fill, writer, rin, rd, variant, cvars, lvars, ovars>>

\* The generated write_to returns Ok(()).
WriteReturn ==
    /\ mpc = "writing"
    /\ pos > Len(writer)
    /\ mpc' = "written"
    /\ UNCHANGED <<def, gen, fill, writer, pos, out, rin, rd, variant, cvars, lvars, ovars>>

\* The bytes of a sequence of written items, in order.
RECURSIVE Flatten(_)
Flatten(items) == IF items = <<>> THEN <<>> ELSE Head(items).bytes \o Flatten(Tail(items))

----------------------------------------------------------------------------
(* The generated readers (impls.rs).  A read statement is [op, src, elem]: *)
(* op is the buffer call ("get_u16", "get_u32", "advance") or "read" for   *)
(* an element's own read.                                                  *)

\* Item::deserialize_tokens for the element at index i.
read_tokens(i) == <<Stmt("read", "element", i)>>

\* Items::metabyte_deserialize_tokens: the metabyte item, or skip the byte.
metabyte_deserialize_tokens(content) ==
    IF metabyte_element(content) # 0 THEN read_tokens(metabyte_element(content))
    ELSE <<Stmt("advance", "zero", 0)>>

\* `for (id, item) in items.pairs().filter(|(_, item)| !item.is_metabyte())`
InnerReads(content) ==
    LET keep(i) == ~is_metabyte(content[i])
        kept == SelectSeq(Indices(content), keep)
    IN  [k \in 1..Len(kept) |-> Stmt("read", "element", kept[k])]

\* <Request as DeserializeMessageTokens>::deserialize_tokens: the opcode is
\* not read; the metabyte is read only when there is no minor opcode.
Request_deserialize_tokens(d) ==
    LET metabyte ==
            IF IsNone(d.minor_opcode) THEN metabyte_deserialize_tokens(d.content)
            ELSE <<>>
    IN  metabyte \o <<Stmt("get_u16", "length", 0)>> \o InnerReads(d.content)

\* <Reply as DeserializeMessageTokens>::deserialize_tokens: the byte 1 is
\* not read; the sequence is read unless the definition opts out.
Reply_deserialize_tokens(d) ==
    LET sequence ==
            IF ~d.sequence_token THEN <<Stmt("get_u16", "sequence", 0)>> ELSE <<>>
    IN  metabyte_deserialize_tokens(d.content)
            \o sequence
            \o <<Stmt("get_u32", "length", 0)>>
            \o InnerReads(d.content)

\* <Event as DeserializeMessageTokens>::deserialize_tokens: the code is not
\* read.
Event_deserialize_tokens(d) ==
    metabyte_deserialize_tokens(d.content)
        \o <<Stmt("get_u16", "sequence", 0)>>
        \o InnerReads(d.content)

ExpandReader(d) ==
    CASE d.kind = "Request" -> Request_deserialize_tokens(d)
      [] d.kind = "Reply" -> Reply_deserialize_tokens(d)
      [] d.kind = "Event" -> Event_deserialize_tokens(d)

\* The bytes one read statement takes from the buffer.
StmtSize(stmt, d) ==
    CASE stmt.op = "get_u16" -> 2
      [] stmt.op = "get_u32" -> 4
      [] stmt.op = "advance" -> 1
      [] stmt.op = "read" -> d.content[stmt.elem].size

\* What a read statement does when the buffer is too short: Buf::get_u16,
\* Buf::get_u32 and Buf::advance panic, an element's read_from returns
\* Err(BufferUnderrun).
ShortRead(stmt) == IF stmt.op = "read" THEN "BufferUnderrun" ELSE "Panic"

\* The generated read_from: the statements run in order over the buffer b.
\* The result is [status, items, rest]; items are what was read, as
\* [src, elem, bytes].
RECURSIVE RunReader(_, _, _, _)
RunReader(stmts, d, b, items) ==
    IF stmts = <<>> THEN [status |-> "Ok", items |-> items, rest |-> b]
    ELSE LET stmt == Head(stmts)
             n == StmtSize(stmt, d)
         IN  IF Remaining(b) < n
             THEN [status |-> ShortRead(stmt), items |-> items, rest |-> b]
             ELSE RunReader(Tail(stmts), d, Advance(b, n),
                            Append(items, [src |-> stmt.src, elem |-> stmt.elem,
                                           bytes |-> SubSeq(b, 1, n)]))

\* The header bytes a caller has read before it can pick the read_from of a
\* message: the tag byte, and the minor opcode of a request that has one.
\* An enum has no tag.
TagBytes(d) ==
    IF d.kind = "Enum" THEN 0
    ELSE IF d.kind = "Request" /\ IsSome(d.minor_opcode) THEN 2 ELSE 1

\* Cuts of up to MaxCut bytes are tried on the buffer handed to read_from.
MaxCut == 6

\* Discriminant bytes found in a received buffer.
DiscriminantBytes == {0, 1, 2, 5, 6, 7, 255}

\* The buffers handed to read_from: exactly the bytes write_to produced;
\* those bytes after the tag; the latter cut off after up to MaxCut bytes;
\* and, for an enum, the written bytes with another discriminant byte.
ReaderInputs(d, bytes) ==
    LET after == Advance(bytes, TagBytes(d))
    IN  {bytes, after}
            \cup {SubSeq(after, 1, n) : n \in 0..(IF Len(after) < MaxCut
                                                   THEN Len(after) ELSE MaxCut)}
            \cup (IF d.kind = "Enum"
                  THEN {<<b>> \o Tail(bytes) : b \in DiscriminantBytes} ELSE {})

\* The discriminant tokens of case k in Enum::deserialize_tokens, matched as
\* `discrim == (<tokens>) as u8`.  A variant of it that starts at 1
\* precedes it.
Enum_deserialize_discrim_FromOne(variants, k) ==
    LET explicit == {j \in 1..k : IsSome(variants[j].discriminant)}
        last == CHOOSE j \in explicit : \A i \in explicit : i <= j
    IN  AsU8(IF explicit = {} THEN k
             ELSE variants[last].discriminant[1] + (k - last))
Enum_deserialize_discrim(variants, k) ==
    LET explicit == {j \in 1..k : IsSome(variants[j].discriminant)}
        last == CHOOSE j \in explicit : \A i \in explicit : i <= j
    IN  AsU8(IF explicit = {} THEN k - 1
             ELSE variants[last].discriminant[1] + (k - last))

\* The read_from generated by Enum::deserialize_tokens: `reader.get_u8()`
\* (which panics on an empty buffer), then the first arm whose discriminant
\* equals the byte, else Err(UnrecognizedDiscriminant(byte)).  The result is
\* [status, items, rest, variant, value]: the case constructed (0 when
\* none) and the discriminant byte read.  A variant that falls back to the
\* first case precedes it.
Enum_read_from_DefaultCase(d, b) ==
    IF Remaining(b) < 1
    THEN [status |-> "Panic", items |-> <<>>, rest |-> b, variant |-> 0, value |-> NoValue]
    ELSE LET discrim == b[1]
             arms == {k \in 1..Len(d.variants) :
                         Enum_deserialize_discrim(d.variants, k) = discrim}
             first == IF arms = {} THEN 1
                      ELSE CHOOSE k \in arms : \A i \in arms : k <= i
             r == RunReader([i \in 1..Len(d.variants[first].content) |->
                                 Stmt("read", "element", i)],
                            ActiveDef(d, first), Advance(b, 1), <<>>)
         IN  [status |-> r.status, items |-> r.items, rest |-> r.rest,
              variant |-> IF r.status = "Ok" THEN first ELSE 0, value |-> discrim]
Enum_read_from(d, b) ==
    IF Remaining(b) < 1
    THEN [status |-> "Panic", items |-> <<>>, rest |-> b, variant |-> 0, value |-> NoValue]
    ELSE LET discrim == b[1]
             arms == {k \in 1..Len(d.variants) :
                         Enum_deserialize_discrim(d.variants, k) = discrim}
             first == CHOOSE k \in arms : \A i \in arms : k <= i
             r == RunReader([i \in 1..Len(d.variants[first].content) |->
                                 Stmt("read", "element", i)],
                            ActiveDef(d, first), Advance(b, 1), <<>>)
         IN  IF arms = {}
             THEN [status |-> "UnrecognizedDiscriminant", items |-> <<>>,
                   rest |-> Advance(b, 1), variant |-> 0, value |-> discrim]
             ELSE [status |-> r.status, items |-> r.items, rest |-> r.rest,
                   variant |-> IF r.status = "Ok" THEN first ELSE 0, value |-> discrim]

\* The data_size generated by Enum::data_size_tokens for a value of case k:
\* `let mut datasize: usize = 1;`, then each item adds its size.  A variant
\* that starts at 0 precedes it.
RECURSIVE datasize_tokens(_, _)
datasize_tokens(content, datasize) ==
    IF content = <<>> THEN datasize
    ELSE datasize_tokens(Tail(content), datasize + Head(content).size)
Enum_data_size_FromZero(d, k) == datasize_tokens(d.variants[k].content, 0)
Enum_data_size(d, k) == datasize_tokens(d.variants[k].content, 1)

\* The read_from generated for a definition, applied to the buffer b.
GeneratedReadFrom(d, b) ==
    IF d.kind = "Enum" THEN Enum_read_from(d, b)
    ELSE RunReader(ExpandReader(d), d, b, <<>>)

\* The generated read_from is called on a buffer.
CallGeneratedReadFrom ==
    /\ mpc = "written"
    /\ gen = "serialize_tokens"
    /\ \E b \in ReaderInputs(def, Flatten(out)) :
          /\ rin' = b
          /\ rd' = GeneratedReadFrom(def, b)
    /\ mpc' = "read"
    /\ UNCHANGED <<def, gen, fill, writer, pos, out, variant, cvars, lvars, ovars>>

NextMsg ==
    \/ MacroExpand \/ MacroPanic \/ WriteStatement \/ WriteReturn
    \/ CallGeneratedReadFrom

SpecMsg == InitMsg /\ [][NextMsg]_vars

----------------------------------------------------------------------------
(* Lists with a separate count field:                                      *)
(*   let <list>_len: u16 = <list> => <list>.len() as u16,                  *)
(*   #[context(<list>_len => *<list>_len as usize)] pub <list>: ...        *)
(* A list is kept as its number of elements, and the encoded list as the   *)
(* two bytes of the count field and the number of elements that follow.    *)

\* The longest short list.
MaxListLen == 3
U16Range == 65536

\* Messages of requests/mod.rs with a counted list, and the size of one
\* element (Window: 4 bytes, a String8 character: 1 byte).
CountedListMessages ==
    {[name |-> "QueryTreeReply", element_size |-> 4],
     [name |-> "InternAtom", element_size |-> 1],
     [name |-> "GetAtomNameReply", element_size |-> 1],
     [name |-> "OpenFont", element_size |-> 1]}
\* Lengths of a Vec or string: short ones, and those around u16::MAX.
ListLens == (0..MaxListLen) \cup {U16Max, U16Range, U16Range + 1}

\* `<list>.len() as u16`.  A variant that saturates at u16::MAX precedes it.
len_as_u16_Saturating(n) == IF n > U16Max THEN U16Max ELSE n
len_as_u16(n) == n % U16Range

\* The generated write_to: the count field, then every element.
WriteCountedList(msg, len) ==
    [count |-> PutU16(len_as_u16(len)), elements |-> len]

\* The generated read_from: the count is read, then `*<list>_len as usize`
\* elements; Err(BufferUnderrun) when fewer elements are there.
ReadCountedList(msg, wire) ==
    LET n == GetU16(wire.count)
    IN  IF wire.elements < n
        THEN [status |-> "BufferUnderrun", len |-> 0, unread |-> wire.elements]
        ELSE [status |-> "Ok", len |-> n, unread |-> wire.elements - n]

InitList ==
    /\ ConfigsIdle
    /\ MsgIdle
    /\ OpcodeIdle
    /\ lpc = "defined"
    /\ list \in {[msg |-> m, len |-> n] : m \in CountedListMessages, n \in ListLens}
    /\ lwire = <<>>
    /\ lread = <<>>

\* write_to of the message.
EncodeList ==
    /\ lpc = "defined"
    /\ lwire' = WriteCountedList(list.msg, list.len)
    /\ lpc' = "written"
    /\ UNCHANGED <<list, lread, cvars, mvars, ovars>>

\* The buffer reaches the reader without its last elements.
LoseElements ==
    /\ lpc = "written"
    /\ \E lost \in 1..MaxListLen :
          /\ lost <= lwire.elements
          /\ lwire' = [lwire EXCEPT !.elements = @ - lost]
    /\ lpc' = "cut"
    /\ UNCHANGED <<list, lread, cvars, mvars, ovars>>

\* read_from of the message.
DecodeList ==
    /\ lpc \in {"written", "cut"}
    /\ lread' = ReadCountedList(list.msg, lwire)
    /\ lpc' = IF lpc = "written" THEN "read" ELSE "read_cut"
    /\ UNCHANGED <<list, lwire, cvars, mvars, ovars>>

NextList == EncodeList \/ LoseElements \/ DecodeList

SpecList == InitList /\ [][NextList]_vars

\* Both machines: a WindowConfigs is built, written and read, or a
\* definition is expanded and its codec run.
InitAll == Init \/ InitMsg
NextAll == Next \/ NextMsg
SpecAll == InitAll /\ [][NextAll]_vars

----------------------------------------------------------------------------
(* Properties of the generated writers *)

\* The items written for the body: everything after the first n items.
ItemsAfter(n) == SubSeq(out, n + 1, Len(out))

C9_RequestLengthIsSizeOver4 ==
    (mpc = "written" /\ def.kind = "Request") =>
        \A k \in 1..Len(out) :
            out[k].src = "length" => GetU16(out[k].bytes) = Len(Flatten(out)) \div 4

\* C10: the value written into a reply's 32-bit length field is the number
\* of 4-byte units by which the reply's total encoded size exceeds 32 bytes.
C10_ReplyLengthIsUnitsBeyond32 ==
    (mpc = "written" /\ def.kind = "Reply" /\ Len(Flatten(out)) >= 32) =>
        \A k \in 1..Len(out) :
            out[k].src = "length" =>
                GetU32(out[k].bytes) = <<0, (Len(Flatten(out)) - 32) \div 4>>

\* C11: the bytes written by a generated request writer (the 4-byte header,
\* the body elements and the unused runs) number a multiple of 4.
C11_RequestSizeMultipleOf4 ==
    (mpc = "written" /\ def.kind = "Request") => Len(Flatten(out)) % 4 = 0

\* The item written at the metabyte position: the element designated as
\* metabyte when the content has one, otherwise a byte 0.
IsMetabyteItem(item, content) ==
    IF MetabyteIndices(content) # {}
    THEN item.src = "element" /\ item.elem \in MetabyteIndices(content)
    ELSE item.src = "zero" /\ item.bytes = <<0>>

\* The items from number n + 1 on are the elements that are neither metabyte
\* nor sequence, each once, in declaration order.
BodyFollows(n, content) ==
    LET body == ItemsAfter(n)
        rest == {i \in 1..Len(content) : ~content[i].metabyte /\ ~content[i].sequence}
    IN  /\ \A k \in 1..Len(body) : body[k].src = "element" /\ body[k].elem \in rest
        /\ \A k, l \in 1..Len(body) : k < l => body[k].elem < body[l].elem
        /\ {body[k].elem : k \in 1..Len(body)} = rest

\* C12: every generated reply writer emits, before any body element, the byte
\* 1, one metabyte item, the 16-bit sequence and the 32-bit length, in that
\* order, also for a reply that opts out of the sequence field.
C12_ReplyHeader ==
    (mpc = "written" /\ def.kind = "Reply") =>
        /\ Len(out) >= 4
        /\ out[1].src = "one" /\ out[1].bytes = <<1>>
        /\ IsMetabyteItem(out[2], def.content)
        /\ out[3].src = "sequence" /\ Len(out[3].bytes) = 2
        /\ out[4].src = "length" /\ Len(out[4].bytes) = 4
        /\ BodyFollows(4, def.content)

\* C13: a generated event writer emits the event code byte; for an event that
\* carries a sequence field it then emits one metabyte item (the designated
\* element or 0) and the 16-bit sequence; for an event without a sequence
\* field the body follows the code byte directly.
CarriesSequence(d) == d.implicit_sequence \/ SequenceIndices(d.content) # {}
WrittenFor(src, elem) ==
    {out[k].bytes : k \in {j \in 1..Len(out) : out[j].src = src /\ out[j].elem = elem}}
ReadFor(src, elem) ==
    {rd.items[k].bytes :
        k \in {j \in 1..Len(rd.items) : rd.items[j].src = src /\ rd.items[j].elem = elem}}

\* C14: the generated read_from, applied to exactly the bytes the generated
\* write_to produced for a value, succeeds, consumes every byte, and reads
\* for the metabyte, the sequence, the length and every element the bytes
\* that were written for it.
C14_ReadMirrorsWrite ==
    (mpc = "read" /\ def.kind \in {"Request", "Reply", "Event"} /\ rin = Flatten(out)) =>
        /\ rd.status = "Ok"
        /\ rd.rest = <<>>
        /\ \A k \in 1..Len(rd.items) :
              rd.items[k].src \in {"element", "sequence", "length"} =>
                  {rd.items[k].bytes} = WrittenFor(rd.items[k].src, rd.items[k].elem)
        /\ \A k \in 1..Len(out) :
              out[k].src \in {"element", "sequence", "length"} =>
                  ReadFor(out[k].src, out[k].elem) = {out[k].bytes}

----------------------------------------------------------------------------
(* Properties of the generated enum codecs and of the stack-mode slot *)

\* The enum `A, B = 5, C`.
IsABC(d) ==
    /\ d.kind = "Enum"
    /\ Len(d.variants) = 3
    /\ IsNone(d.variants[1].discriminant)
    /\ d.variants[2].discriminant = Some(5)
    /\ IsNone(d.variants[3].discriminant)

C16_UnrecognizedDiscriminant ==
    /\ (/\ mpc = "read" /\ def.kind = "Enum" /\ rin # <<>>
        /\ \A k \in 1..Len(def.variants) : RustDiscriminant(def.variants, k) # rin[1])
         => (/\ rd.status = "UnrecognizedDiscriminant"
             /\ rd.value = rin[1]
             /\ rd.variant = 0)
    /\ (/\ pc = "read_wire"
        /\ Len(buf) >= 4
        /\ contains(GetU16(buf), STACK_MODE)
        /\ Len(buf) = 4 + 4 * FlagCount(GetU16(buf))
        /\ GetU32(SubSeq(buf, Len(buf) - 3, Len(buf)))
              \notin {<<0, 0>>, <<0, 1>>, <<0, 2>>, <<0, 3>>, <<0, 4>>})
         => (/\ decoded.status = "UnrecognizedDiscriminant"
             /\ decoded.value = GetU32(SubSeq(buf, Len(buf) - 3, Len(buf))))
C16_Witness ==
    /\ mpc = "read"
    /\ IsABC(def)
    /\ rin # <<>> /\ rin[1] = 2
    /\ rd.status = "UnrecognizedDiscriminant"
    /\ rd.value = 2

RECURSIVE SumOfSizes(_)
SumOfSizes(content) ==
    IF content = <<>> THEN 0 ELSE Head(content).size + SumOfSizes(Tail(content))
----------------------------------------------------------------------------
(* Properties of counted lists and of short buffers *)

\* C19: encoding a list of n elements writes a count field equal to n, for
\* every n, and decoding reads exactly as many elements as the count field
\* says.
C19_CountIsListLength ==
    /\ lpc \in {"written", "read"} => GetU16(lwire.count) = list.len
    /\ (lpc \in {"read", "read_cut"} /\ lread.status = "Ok") =>
          lread.len = GetU16(lwire.count)

\* The bytes the generated read_from of a message needs.
RECURSIVE BytesNeeded(_, _)
BytesNeeded(stmts, d) ==
    IF stmts = <<>> THEN 0 ELSE StmtSize(Head(stmts), d) + BytesNeeded(Tail(stmts), d)

\* C20: a read from a buffer that holds fewer bytes than the read requires
\* returns Err(BufferUnderrun): WindowConfigs::read_from on a buffer cut off
\* inside the mask, inside the 2 reserved bytes or inside a slot whose mask
\* bit is set, and the generated read_from of a message on a buffer cut off
\* inside its header or body.
C20_ShortBufferIsUnderrun ==
    /\ (/\ pc = "read_wire"
        /\ \/ Len(buf) < 4
           \/ Len(buf) < 4 + 4 * FlagCount(GetU16(buf)))
         => decoded.status = "BufferUnderrun"
    /\ (/\ mpc = "read"
        /\ def.kind \in {"Request", "Reply", "Event"}
        /\ Len(rin) < BytesNeeded(ExpandReader(def), def))
         => rd.status = "BufferUnderrun"

----------------------------------------------------------------------------
(* Properties of the metabyte slot, of writers on any value, and of         *)
(* received WindowConfigs buffers                                           *)

\* A message whose header has a metabyte slot: a request, a reply, or an
\* event that carries a sequence field.
HasMetabyteSlot(d) ==
    d.kind \in {"Request", "Reply"} \/ (d.kind = "Event" /\ CarriesSequence(d))

\* C21: in every encoded request, reply and sequence-carrying event the
\* metabyte slot is exactly one byte at offset 1, so the next header field
\* (length or sequence) starts at offset 2, also when the element designated
\* as metabyte is a count declared with a wider type; when no element is
\* designated (and the request has no minor opcode) the byte is 0.
C21_MetabyteSlotIsOneByte ==
    (mpc = "written" /\ HasMetabyteSlot(def)) =>
        /\ Len(out) >= 3
        /\ Len(out[1].bytes) = 1
        /\ Len(out[2].bytes) = 1
        /\ out[3].src \in {"length", "sequence"}
        /\ Len(out[1].bytes) + Len(out[2].bytes) = 2
        /\ (/\ MetabyteIndices(def.content) = {}
            /\ (def.kind = "Request" => IsNone(def.minor_opcode)))
             => out[2].bytes = <<0>>

NarrowFields == {"x", "y", "width", "height", "border_width"}
Accessor(c, f) ==
    CASE f = "x" -> Configs_x(c)
      [] f = "y" -> Configs_y(c)
      [] f = "width" -> Configs_width(c)
      [] f = "height" -> Configs_height(c)
      [] f = "border_width" -> Configs_border_width(c)
OutOfRange(c, f) ==
    /\ IsSome(c[f])
    /\ IF f \in {"x", "y"} THEN IsNone(I16TryFromI32(c[f][1]))
       ELSE IsNone(U16TryFromU32(c[f][1]))

\* C23: a buffer whose 4-byte slot for x, y, width, height or border_width
\* holds a value outside the logical 16-bit range is still read successfully
\* (a complete buffer fails only on an unknown stack mode); the accessor of
\* such a field, and only of such a field, fails its consistency check; no
\* accessor fails on a WindowConfigs obtained from the builder.
C23_OutOfRangeSurfacesInAccessor ==
    /\ (/\ pc = "read_wire"
        /\ Len(buf) >= 4
        /\ Len(buf) = 4 + 4 * FlagCount(GetU16(buf))
        /\ contains(GetU16(buf), STACK_MODE) =>
              GetU32(SubSeq(buf, Len(buf) - 3, Len(buf)))
                  \in {<<0, 0>>, <<0, 1>>, <<0, 2>>, <<0, 3>>, <<0, 4>>})
         => decoded.status = "Ok"
    /\ (pc = "read_wire" /\ decoded.status = "Ok") =>
          \A f \in NarrowFields :
              Accessor(decoded.value, f).panic <=> OutOfRange(decoded.value, f)
    /\ pc \in {"built", "written", "read"} =>
          \A f \in NarrowFields : ~Accessor(configs, f).panic
    /\ (pc = "read" /\ decoded.status = "Ok") =>
          \A f \in NarrowFields : ~Accessor(decoded.value, f).panic
C23_Witness ==
    /\ pc = "read_wire"
    /\ decoded.status = "Ok"
    /\ decoded.value.x = Some(<<U16Max, U16Max>>)
    /\ ~Configs_x(decoded.value).panic
    /\ decoded.value.width = Some(<<U16Max, U16Max>>)
    /\ Configs_width(decoded.value).panic
    /\ OutOfRange(decoded.value, "width")

\* The buffer b with its 2 reserved bytes (offsets 2 and 3) replaced.
ReservedAlternatives == {0, 1, 255}
WithReserved(b, r1, r2) ==
    [i \in 1..Len(b) |-> IF i = 3 THEN r1 ELSE IF i = 4 THEN r2 ELSE b[i]]

\* C24: the 2 reserved bytes after the mask are skipped and not validated:
\* any buffer that differs from the one read only in those 2 bytes gives the
\* same result (the same error, or an equal WindowConfigs) and read_from
\* consumes the same number of bytes from it.
C24_ReservedBytesIgnored ==
    (pc = "read_wire" /\ Len(buf) >= 4) =>
        \A r1, r2 \in ReservedAlternatives :
            LET twin == read_from(WithReserved(buf, r1, r2))
            IN  /\ twin.status = decoded.status
                /\ twin.value = decoded.value
                /\ Len(twin.rest) = Len(decoded.rest)
C24_Witness ==
    /\ pc = "read_wire"
    /\ Len(buf) = 12
    /\ buf[3] = 255 /\ buf[4] = 255
    /\ decoded.status = "Ok"
    /\ decoded.value.x = Some(<<0, 5>>)
    /\ decoded.value.sibling = Some(<<0, 5>>)
    /\ decoded.rest = <<>>
    /\ read_from(WithReserved(buf, 0, 0)).value = decoded.value

----------------------------------------------------------------------------
(* Properties of the WindowConfigsBuilder *)

\* The builder after the setter of field f is called with value v.
SetterResult(b, f, v) ==
    CASE f = "x" -> Builder_x(b, v)
      [] f = "y" -> Builder_y(b, v)
      [] f = "width" -> Builder_width(b, v)
      [] f = "height" -> Builder_height(b, v)
      [] f = "border_width" -> Builder_border_width(b, v)
      [] f = "sibling" -> Builder_sibling(b, v)
      [] f = "stack_mode" -> Builder_stack_mode(b, v)
\* The values the setter of field f is called with.
SetterVals(f) ==
    CASE f \in {"x", "y"} -> I16Vals
      [] f \in {"width", "height", "border_width"} -> U16Vals
      [] f = "sibling" -> WindowVals
      [] f = "stack_mode" -> StackModeVals

\* C25: in every builder state the cached x11_size is
\* WindowConfigMask::X11_SIZE plus 4 times the number of fields that are
\* Some; a setter called for a field that is already set replaces the value
\* and leaves x11_size unchanged, and called for an unset field adds 4.
C25_BuilderSizeCountsFields ==
    /\ builder.x11_size = MaskX11Size + 4 * PresentCount(builder)
    /\ pc = "building" =>
          \A f \in FieldNames : \A v \in SetterVals(f) :
              /\ SetterResult(builder, f, v)[f] = Some(v)
              /\ SetterResult(builder, f, v).x11_size =
                    IF IsSome(builder[f]) THEN builder.x11_size
                    ELSE builder.x11_size + 4
C25_Witness ==
    /\ pc = "building"
    /\ \A f \in FieldNames : IsSome(builder[f])
    /\ builder.x11_size = 30
    /\ builder.x = Some(I16SignBit)
    /\ Builder_x(builder, 0).x = Some(0)
    /\ Builder_x(builder, 0).x11_size = 30

\* C26: a setter call changes only its own field, its own mask bit and the
\* cached x11_size: the other six fields and their mask bits are unchanged,
\* and no call clears a field or a mask bit, so the set of present fields
\* only grows along any call sequence.
C26_SetterFrame ==
    [][(pc = "building" /\ pc' = "building") =>
          LET changed == {g \in FieldNames : builder'[g] # builder[g]}
          IN  /\ Cardinality(changed) <= 1
              /\ changed = {} => builder'.mask = builder.mask
              /\ \A f \in changed :
                    /\ IsSome(builder'[f])
                    /\ builder'.mask = BitOr(builder.mask, FlagOf(f))
              /\ builder'.x11_size >= builder.x11_size]_vars
C26_Witness ==
    /\ pc = "building"
    /\ builder.sibling = Some(<<U16Max, U16Max>>)
    /\ builder.stack_mode = Some("TopIf")
    /\ builder.mask = SIBLING + STACK_MODE
    /\ builder.x11_size = 10
    /\ \A f \in NarrowFields : IsNone(builder[f])

----------------------------------------------------------------------------
(* Properties of WindowConfigs::read_from on any buffer *)

\* Bytes that follow a WindowConfigs in a longer buffer.
TrailingBytes == <<7, 0, 255>>

\* C27: after a successful read_from, x11_size() of the returned value is
\* the number of bytes read_from consumed from the buffer: 2 for the mask,
\* 2 reserved and 4 for each field whose mask bit is set; the bytes that
\* follow in the buffer are left unread.
C27_ReadSizeIsBytesConsumed ==
    (pc \in {"read", "read_wire"} /\ decoded.status = "Ok") =>
        LET longer == read_from(buf \o TrailingBytes)
        IN  /\ x11_size(decoded.value) = Len(buf) - Len(decoded.rest)
            /\ x11_size(decoded.value) = 4 + 4 * FlagCount(decoded.value.mask)
            /\ longer.status = "Ok"
            /\ longer.rest = TrailingBytes
            /\ longer.value = decoded.value
            /\ x11_size(longer.value) = Len(buf \o TrailingBytes) - Len(longer.rest)
C27_Witness ==
    /\ pc = "read_wire"
    /\ decoded.status = "Ok"
    /\ decoded.value.mask = Y + HEIGHT + STACK_MODE
    /\ Len(buf) = 16
    /\ decoded.rest = <<>>
    /\ x11_size(decoded.value) = 16
    /\ read_from(buf \o TrailingBytes).rest = TrailingBytes

----------------------------------------------------------------------------
(* Properties of the generated writers: elements and opcodes *)

\* The positions in the output at which element i of the content is written.
EmittedAt(i) ==
    {k \in 1..Len(out) : out[k].src \in {"element", "sequence"} /\ out[k].elem = i}

\* C28: a generated request, reply or event writer emits every element of
\* the content exactly once: the element designated as metabyte as the
\* second item of the header, the element designated as sequence as the
\* third, and every other element after the header, in declaration order.
C28_EveryElementOnce ==
    (mpc = "written" /\ def.kind \in {"Request", "Reply", "Event"}) =>
        LET c == def.content
        IN  /\ \A i \in 1..Len(c) : Cardinality(EmittedAt(i)) = 1
            /\ \A i \in MetabyteIndices(c) : EmittedAt(i) = {2}
            /\ \A i \in SequenceIndices(c) : EmittedAt(i) = {3}
            /\ \A i, j \in 1..Len(c) :
                  (/\ i < j
                   /\ ~is_metabyte(c[i]) /\ ~is_sequence(c[i])
                   /\ ~is_metabyte(c[j]) /\ ~is_sequence(c[j]))
                    => \A k \in EmittedAt(i), l \in EmittedAt(j) : 3 <= k /\ k < l

\* The request types defined in src/src/x11/requests/mod.rs, in the order of
\* the file, each with the opcode given in `Request(<opcode>)`.
RequestTable ==
    <<[name |-> "CreateWindow", major_opcode |-> 1],
      [name |-> "ChangeWindowAttributes", major_opcode |-> 2],
      [name |-> "GetWindowAttributes", major_opcode |-> 3],
      [name |-> "DestroyWindow", major_opcode |-> 4],
      [name |-> "DestroySubwindows", major_opcode |-> 5],
      [name |-> "ChangeSaveSet", major_opcode |-> 6],
      [name |-> "ReparentWindow", major_opcode |-> 7], [name |-> "MapWindow", major_opcode |-> 8],
      [name |-> "MapSubwindows", major_opcode |-> 9],
      [name |-> "UnmapWindow", major_opcode |-> 10],
      [name |-> "UnmapSubwindows", major_opcode |-> 11],
      [name |-> "ConfigureWindow", major_opcode |-> 12],
      [name |-> "CirculateWindow", major_opcode |-> 13],
      [name |-> "GetGeometry", major_opcode |-> 14], [name |-> "QueryTree", major_opcode |-> 15],
      [name |-> "InternAtom", major_opcode |-> 16], [name |-> "GetAtomName", major_opcode |-> 17],
      [name |-> "SetSelectionOwner", major_opcode |-> 22],
      [name |-> "GetSelectionOwner", major_opcode |-> 23],
      [name |-> "ConvertSelection", major_opcode |-> 24],
      [name |-> "SendEvent", major_opcode |-> 25], [name |-> "GrabPointer", major_opcode |-> 26],
      [name |-> "UngrabPointer", major_opcode |-> 27],
      [name |-> "GrabButton", major_opcode |-> 28], [name |-> "UngrabButton", major_opcode |-> 29],
      [name |-> "ChangeActivePointerGrab", major_opcode |-> 30],
      [name |-> "GrabKeyboard", major_opcode |-> 31],
      [name |-> "UngrabKeyboard", major_opcode |-> 32], [name |-> "GrabKey", major_opcode |-> 33],
      [name |-> "UngrabKey", major_opcode |-> 34], [name |-> "AllowEvents", major_opcode |-> 35],
      [name |-> "GrabServer", major_opcode |-> 36], [name |-> "UngrabSever", major_opcode |-> 37],
      [name |-> "QueryPointer", major_opcode |-> 38],
      [name |-> "GetMotionEvents", major_opcode |-> 39],
      [name |-> "TranslateCoordinates", major_opcode |-> 40],
      [name |-> "WarpPointer", major_opcode |-> 41],
      [name |-> "SetInputFocus", major_opcode |-> 42],
      [name |-> "GetInputFocus", major_opcode |-> 43],
      [name |-> "QueryKeymap", major_opcode |-> 44], [name |-> "OpenFont", major_opcode |-> 45],
      [name |-> "CloseFont", major_opcode |-> 46], [name |-> "QueryFont", major_opcode |-> 47],
      [name |-> "QueryTextExtents", major_opcode |-> 48],
      [name |-> "ListFonts", major_opcode |-> 49], [name |-> "SetFontPath", major_opcode |-> 51],
      [name |-> "CreatePixmap", major_opcode |-> 53], [name |-> "FreePixmap", major_opcode |-> 54],
      [name |-> "CreateGraphicsContext", major_opcode |-> 55],
      [name |-> "ChangeGraphicsContext", major_opcode |-> 56],
      [name |-> "CopyGraphicsContext", major_opcode |-> 57],
      [name |-> "SetDashes", major_opcode |-> 58],
      [name |-> "SetClipRectangles", major_opcode |-> 59],
      [name |-> "FreeGraphicsContext", major_opcode |-> 60],
      [name |-> "ClearArea", major_opcode |-> 61], [name |-> "CopyArea", major_opcode |-> 62],
      [name |-> "CopyPlane", major_opcode |-> 63], [name |-> "PolyPoint", major_opcode |-> 64],
      [name |-> "PolyLine", major_opcode |-> 65], [name |-> "PolySegment", major_opcode |-> 66],
      [name |-> "PolyRectangle", major_opcode |-> 67], [name |-> "PolyArc", major_opcode |-> 68],
      [name |-> "FillPoly", major_opcode |-> 69],
      [name |-> "PolyFillRectangle", major_opcode |-> 70],
      [name |-> "PolyFillArc", major_opcode |-> 71], [name |-> "PutImage", major_opcode |-> 72],
      [name |-> "GetImage", major_opcode |-> 73], [name |-> "PolyText8", major_opcode |-> 74],
      [name |-> "PolyText16", major_opcode |-> 75], [name |-> "ImageText8", major_opcode |-> 76],
      [name |-> "ImageText16", major_opcode |-> 77],
      [name |-> "CreateColormap", major_opcode |-> 78],
      [name |-> "FreeColormap", major_opcode |-> 79],
      [name |-> "CopyColormapAndFree", major_opcode |-> 80],
      [name |-> "InstallColormap", major_opcode |-> 81],
      [name |-> "UninstallColormap", major_opcode |-> 82],
      [name |-> "ListInstalledColormaps", major_opcode |-> 73],
      [name |-> "AllocColor", major_opcode |-> 84],
      [name |-> "AllocNamedColor", major_opcode |-> 85],
      [name |-> "AllocColorCells", major_opcode |-> 86],
      [name |-> "AllocColorPlanes", major_opcode |-> 87],
      [name |-> "FreeColors", major_opcode |-> 88], [name |-> "StoreColors", major_opcode |-> 89],
      [name |-> "StoreNamedColor", major_opcode |-> 90],
      [name |-> "LookupColor", major_opcode |-> 92],
      [name |-> "CreateCursor", major_opcode |-> 93],
      [name |-> "CreateGlyphCursor", major_opcode |-> 94],
      [name |-> "FreeCursor", major_opcode |-> 95],
      [name |-> "RecolorCursor", major_opcode |-> 96],
      [name |-> "QueryBestSize", major_opcode |-> 97],
      [name |-> "QueryExtension", major_opcode |-> 98],
      [name |-> "ListExtensions", major_opcode |-> 99],
      [name |-> "GetKeyboardControl", major_opcode |-> 103],
      [name |-> "Bell", major_opcode |-> 104],
      [name |-> "ChangePointerControl", major_opcode |-> 105],
      [name |-> "GetPointerControl", major_opcode |-> 106],
      [name |-> "SetScreenSaver", major_opcode |-> 107],
      [name |-> "GetScreenSaver", major_opcode |-> 108],
      [name |-> "ChangeHosts", major_opcode |-> 109], [name |-> "ListHosts", major_opcode |-> 110],
      [name |-> "SetAccessControl", major_opcode |-> 111],
      [name |-> "SetCloseDownMode", major_opcode |-> 112],
      [name |-> "RotateProperties", major_opcode |-> 114],
      [name |-> "ForceScreenSaver", major_opcode |-> 115],
      [name |-> "SetPointerMapping", major_opcode |-> 116],
      [name |-> "GetPointerMapping", major_opcode |-> 117]>>

RequestNames == {RequestTable[i].name : i \in 1..Len(RequestTable)}
\* The definition of the request type called `name`.
RequestNamed(name) ==
    RequestTable[CHOOSE i \in 1..Len(RequestTable) : RequestTable[i].name = name]

\* <Name as xrb::Request>::major_opcode, as generated by
\* Request::impl_request_tokens: `(<major>) as u8`.
Request_major_opcode(r) == AsU8(r.major_opcode)

\* A request of any of the defined types is about to be written.
InitOpcodes ==
    /\ ConfigsIdle
    /\ MsgIdle
    /\ ListIdle
    /\ opc = "chosen"
    /\ request \in RequestNames
    /\ opcode_byte = 0

\* `buf.put_u8(<Self as ::xrb::Request>::major_opcode())`: the first byte
\* of the encoded request.
WriteOpcode ==
    /\ opc = "chosen"
    /\ opcode_byte' = Request_major_opcode(RequestNamed(request))
    /\ opc' = "written"
    /\ UNCHANGED <<request, cvars, mvars, lvars>>

NextOpcodes == WriteOpcode

SpecOpcodes == InitOpcodes /\ [][NextOpcodes]_vars

\* C29: no two request types defined in the requests module share a major
\* opcode: the opcode byte written for a request of one type is the major
\* opcode of no other type.
C29_MajorOpcodesDistinct ==
    opc = "written" =>
        \A i \in 1..Len(RequestTable) :
            Request_major_opcode(RequestTable[i]) = opcode_byte
                => RequestTable[i].name = request

----------------------------------------------------------------------------
(* Enums whose discriminants reach 256 (impls.rs).  The macro emits          *)
(* `= <expr>` with the case, so rustc sees distinct isize discriminants;     *)
(* the generated codec computes them as usize and narrows with `as u8`.     *)

WideDiscriminantExprs == {None, Some(255), Some(256)}
\* The contents of a case: no items, or one byte.
WideVariantContents == {<<>>, <<Element("field", 1, FALSE, FALSE)>>}
\* `enum Name { A, B = 255, C, D = 256, ... }` with up to MaxVariants cases
\* whose discriminants are pairwise distinct.
WideEnumDefs ==
    {[kind |-> "Enum", variants |-> vs] :
        vs \in {v \in UNION {[1..n -> {Variant(e, c) : e \in WideDiscriminantExprs,
                                                     c \in WideVariantContents}] :
                                n \in 1..MaxVariants} :
                    \A i, j \in 1..Len(v) :
                        i # j => RustDiscriminant(v, i) # RustDiscriminant(v, j)}}

InitWideEnum ==
    /\ ConfigsIdle
    /\ ListIdle
    /\ OpcodeIdle
    /\ mpc = "defined"
    /\ gen = "serialize_tokens"
    /\ def \in WideEnumDefs
    /\ variant \in 1..Len(def.variants)
    /\ fill \in FillBytes
    /\ writer = <<>>
    /\ pos = 0
    /\ out = <<>>
    /\ rin = <<>>
    /\ rd = <<>>

NextWideEnum == MacroExpand \/ WriteStatement \/ WriteReturn \/ CallGeneratedReadFrom

SpecWideEnum == InitWideEnum /\ [][NextWideEnum]_vars

\* C30: in a generated enum codec, cases with distinct discriminant values
\* are written as distinct discriminant bytes and the bytes written for a
\* value decode to the case that wrote them, also when an explicit
\* discriminant or a continued `previous + 1` reaches or exceeds 256.
C30_WideDiscriminantsDistinct ==
    (def.kind = "Enum" /\ mpc \in {"written", "read"}) =>
        /\ \A j, k \in 1..Len(def.variants) :
              RustDiscriminant(def.variants, j) # RustDiscriminant(def.variants, k)
                  => /\ Enum_serialize_discrim(def.variants, j)
                            # Enum_serialize_discrim(def.variants, k)
                     /\ Enum_deserialize_discrim(def.variants, j)
                            # Enum_deserialize_discrim(def.variants, k)
        /\ out[1].src = "discriminant"
        /\ \A k \in 1..Len(def.variants) :
              k # variant => out[1].bytes # <<Enum_serialize_discrim(def.variants, k)>>
        /\ (mpc = "read" /\ rin = Flatten(out)) =>
              (rd.status = "Ok" /\ rd.variant = variant)

====
